---- MODULE Spec2Model ----
(***************************************************************************)
(* Ticket triage orchestration of the Jira agent                           *)
(* (django/api/utils/model_utils.py, django/api/utils/jira_utils.py).      *)
(*                                                                         *)
(* Strings are sequences of one-character strings.  A Python Optional is   *)
(* a record [some, val]; the outcome of a call is a record [exc, val]      *)
(* whose exc is "none" when the call returned val normally.                *)
(***************************************************************************)
EXTENDS Integers, Sequences, FiniteSets, TLC

\* ------------------------------------------------------------------ bounds
\* tickets known to the tracker: keys are 1..MaxTickets
MaxTickets == 3
\* os.cpu_count() of the host: the size of the worker pool
CpuCount == 2
\* number of pieces an LLM completion is built from (specification SpecMatch)
MaxPieces == 4
\* longest payload of the tag-extraction checks
MaxPayloadLen == 3
\* requests posted to the HTTP view in one run of the service
MaxRequests == 2
\* pool threads that call run_llm on the one linking task
TaskThreads == 2
\* run_llm calls of one pool thread
MaxRunCalls == 2

Keys == 1..MaxTickets

\* ------------------------------------------------------------- Python values
None == [some |-> FALSE, val |-> <<>>]
Some(v) == [some |-> TRUE, val |-> v]
\* `is not None` in place of the truth value: "" counts as a result
TruthyNoneOnly(o) == o.some
\* truth value of an Optional[str]: None and "" are falsy
Truthy(o) == o.some /\ o.val # <<>>

Ok(v) == [exc |-> "none", val |-> v]
Raise(e) == [exc |-> e, val |-> <<>>]
\* a failed HTTP request: no status code
RequestFailed(e) == [exc |-> e, val |-> 0]

\* the exception classes the collaborators raise, all subclasses of Exception
ExceptionKinds ==
    {"JiraAPIError", "JiraConfigError", "Exception", "re.error",
     "FileNotFoundError", "AttributeError", "DatabaseError"}

\* `except JiraAPIError`: a handler that catches the tracker's error alone
CatchesJiraOnly(handler, e) == e = "JiraAPIError"
\* `except Exception as e`: every handler of the pipeline catches every class
Catches(handler, e) == e \in ExceptionKinds

\* ------------------------------------------------------------------ strings
related == <<"r", "e", "l", "a", "t", "e", "d">>
TrueStr == <<"T", "r", "u", "e">>
ticket1 == <<"t", "i", "c", "k", "e", "t", "1">>
ticket2 == <<"t", "i", "c", "k", "e", "t", "2">>
description == <<"d", "e", "s", "c", "r", "i", "p", "t", "i", "o", "n">>
user_stories == <<"u", "s", "e", "r", "_", "s", "t", "o", "r", "i", "e", "s">>
acceptance_criteria ==
    <<"a", "c", "c", "e", "p", "t", "a", "n", "c", "e", "_",
      "c", "r", "i", "t", "e", "r", "i", "a">>
priority == <<"p", "r", "i", "o", "r", "i", "t", "y">>
thought == <<"t", "h", "o", "u", "g", "h", "t">>
FalseStr == <<"F", "a", "l", "s", "e">>
High == <<"H", "i", "g", "h">>

\* f'<{tag}>', what both ends of the pattern are written as
Marker(tag) == <<"<">> \o tag \o <<">">>

IsAt(text, m, i) ==
    /\ i >= 1
    /\ i + Len(m) - 1 <= Len(text)
    /\ SubSeq(text, i, i + Len(m) - 1) = m

SetMin(S) == CHOOSE x \in S : \A y \in S : x <= y

\* the pattern f'<{tag}>(.*?)<{tag}>' is compiled with the tag as written (no
\* re.escape): a "(" in the tag opens a group that is never closed, and
\* re.compile raises re.error
Compiles(tag) == \A h \in 1..Len(tag) : tag[h] # "("

\* the search without re.DOTALL: "." stops at a line end
DotAllOff == FALSE
\* flags=re.DOTALL
DotAll == TRUE

\* one character of the pattern against one of the text: "." in the tag is
\* the wildcard, every other character modelled stands for itself
CharMatches(p, c) == IF p = "." THEN (DotAll \/ c # "\n") ELSE p = c

\* the pattern's marker matches the text at position i
MatchesAt(text, m, i) ==
    /\ i >= 1
    /\ i + Len(m) - 1 <= Len(text)
    /\ \A h \in 1..Len(m) : CharMatches(m[h], text[i + h - 1])

\* (.*?) takes text[a..b]
GroupMatches(text, a, b) == DotAll \/ \A h \in a..b : text[h] # "\n"

\* re.search(pattern, text, flags=re.DOTALL) and match.group(1): the leftmost
\* start that has a match, and from it the shortest group
re_search_group(text, tag) ==
    LET m == Marker(tag)
        Closers(i) == {j \in 1..Len(text) :
                          /\ j >= i + Len(m)
                          /\ MatchesAt(text, m, j)
                          /\ GroupMatches(text, i + Len(m), j - 1)}
        Starts == {i \in 1..Len(text) : MatchesAt(text, m, i) /\ Closers(i) # {}}
    IN IF Starts = {} THEN None
       ELSE LET i == SetMin(Starts)
                j == SetMin(Closers(i))
            IN Some(SubSeq(text, i + Len(m), j - 1))

\* the call of extract_tag_helper and how it ends: the try block returns the
\* group or None, `except Exception` (line 157) returns None
extract_tag_call(text, tag) ==
    IF Compiles(tag)
    THEN Ok(re_search_group(text, tag))
    ELSE IF Catches("extract_tag_helper", "re.error")
         THEN Ok(None)
         ELSE [exc |-> "re.error", val |-> None]

extract_tag_helper(text, tag) == extract_tag_call(text, tag).val

\* run_llm, given what chain.invoke does (raises, or returns the completion):
\* the completion, or None when the invocation raised
run_llm(invoke) ==
    IF invoke.exc # "none"
    THEN IF Catches("run_llm", invoke.exc) THEN Ok(None) ELSE Raise(invoke.exc)
    ELSE Ok(Some(invoke.val))

\* f"<ticket1>{ticket1}<ticket1><ticket2>{ticket2}<ticket2>"
linking_prompt(t1, t2) ==
    Marker(ticket1) \o t1 \o Marker(ticket1) \o Marker(ticket2) \o t2 \o Marker(ticket2)

\* `'True' in llm_result`: the literal looked for anywhere in the completion
llm_check_ticket_match_contains(invoke) ==
    LET r == run_llm(invoke)
    IN [exc |-> "none",
        val |-> /\ r.exc = "none"
                /\ Truthy(r.val)
                /\ \E i \in 1..Len(r.val.val) : IsAt(r.val.val, TrueStr, i)]

\* a failed or empty completion taken as a match
llm_check_ticket_match_failopen(invoke) ==
    LET r == run_llm(invoke)
    IN IF r.exc # "none" \/ ~Truthy(r.val)
       THEN [exc |-> "none", val |-> TRUE]
       ELSE LET result == extract_tag_helper(r.val.val, related)
            IN [exc |-> "none",
                val |-> IF Truthy(result) THEN result.val = TrueStr ELSE FALSE]

\* _llm_check_ticket_match, given what chain.invoke does on the prompt
llm_check_ticket_match(invoke) ==
    LET r == run_llm(invoke)
    IN IF r.exc # "none"
       THEN IF Catches("_llm_check_ticket_match", r.exc)
            THEN [exc |-> "none", val |-> FALSE]
            ELSE [exc |-> r.exc, val |-> FALSE]
       ELSE IF ~Truthy(r.val)
       THEN [exc |-> "none", val |-> FALSE]
       ELSE LET result == extract_tag_helper(r.val.val, related)
            IN [exc |-> "none",
                val |-> IF Truthy(result) THEN result.val = TrueStr ELSE FALSE]

\* ---------------------------------------------------------------- tracker
\* link_jira_issue / add_jira_comment, given what _make_request does: status
\* 201 is True, another success status is False, a failed request is
\* re-raised as JiraAPIError
post_result(resp) ==
    IF resp.exc # "none" THEN [exc |-> "JiraAPIError", val |-> FALSE]
    ELSE [exc |-> "none", val |-> resp.val = 201]

link_jira_issue(resp) == post_result(resp)
add_jira_comment(resp) == post_result(resp)

\* what _make_request may do on a POST
PostResponses ==
    {Ok(201), Ok(200), RequestFailed("JiraAPIError"), RequestFailed("JiraConfigError")}

\* the mapping with no entry
NoTickets == [k \in {} |-> <<>>]

\* a failed search answered as if the project had no open ticket
get_all_tickets_empty_on_failure(resp) ==
    IF resp.exc # "none" THEN Ok(Some(NoTickets)) ELSE Ok(Some(resp.val))
\* get_all_tickets: the mapping, or None when the search request failed
get_all_tickets(resp) ==
    IF resp.exc # "none"
    THEN IF Catches("get_all_tickets", resp.exc) THEN Ok(None) ELSE Raise(resp.exc)
    ELSE Ok(Some(resp.val))

\* get_ticket_data: (key, text), or None when the request failed
get_ticket_data(resp) ==
    IF resp.exc # "none"
    THEN IF Catches("get_ticket_data", resp.exc) THEN Ok(None) ELSE Raise(resp.exc)
    ELSE Ok(Some(resp.val))

\* --------------------------------------------------------- status messages
NoStatus == [msg |-> "", arg |-> 0]
NoTicketsFound == [msg |-> "No tickets found for triage", arg |-> 0]
CouldNotRetrieve(n) == [msg |-> "Could not retrieve data for ticket: ", arg |-> n]
TaskComplete == [msg |-> "Task complete", arg |-> 0]
ErrorDuringTriage == [msg |-> "Error during triage: ", arg |-> 0]

\* get_all_tickets not called yet
NoSearch == [tracker |-> "none", exc |-> "none"]
\* what the tracker did on the search request, and the exception (if any)
\* the get_all_tickets call ended with
SearchLog(resp, r) ==
    [tracker |-> IF resp.exc # "none" THEN "failed" ELSE "answered", exc |-> r.exc]

\* no stub: the product model answers as it likes
NoStub == [fields |-> <<>>, layout |-> "none"]

\* ------------------------------------------------------------------- state
VARIABLES
    pc,             \* position of the _triage_tool call
    ticket_number,  \* its argument
    desc,           \* the tracker's text of each ticket
    all_tickets,    \* what get_all_tickets returned
    primary,        \* what get_ticket_data returned: Optional (key, text)
    submitted,      \* corpus keys whose task executor.map has submitted
    wstate,         \* per corpus key, the state of its pool task
    check_calls,    \* per candidate key, the classifier calls made for it
    link_calls,     \* per outward key, the link_jira_issue calls made
    synth_calls,    \* the product_model.run_llm calls
    comment,        \* the comment built by _generate_ticket_metadata
    comment_calls,  \* the add_jira_comment calls
    status,         \* the string _triage_tool returned
    raised,         \* an exception left _triage_tool
    search,         \* the get_all_tickets call: the tracker's answer, the outcome
    stub,           \* SpecMeta: the completion the product model is stubbed with
    cpu_count,      \* what os.cpu_count() returns on this machine
    m_pc,           \* SpecMatch: position of one _llm_check_ticket_match call
    m_invoke,       \* SpecMatch: what chain.invoke does in that call
    m_result,       \* SpecMatch: what the call returned
    x_pc,           \* SpecExtract: position of one extract_tag_helper call
    x_shape,        \* SpecExtract: how the text is built around the payload
    x_a,            \* SpecExtract: the payload
    x_tag,          \* SpecExtract: the tag argument
    x_result,       \* SpecExtract: how the call ended, and its value
    h_pc,           \* SpecHttp: the service: importing model_utils, serving
    h_docs,         \* SpecHttp: the configuration documents on disk at startup
    agent,          \* SpecHttp: model_utils.agent
    h_log,          \* SpecHttp: the POST requests handled, with their responses
    h_db,           \* SpecHttp: the ModelRequest rows saved
    l_chain,        \* SpecTask: the shared linking task's _chain field
    l_pc,           \* SpecTask: per pool thread, its position in run_llm
    l_calls,        \* SpecTask: per pool thread, the run_llm calls it has begun
    l_writes,       \* SpecTask: the threads that assigned a field of the task, in order
    p_ticket,       \* SpecPair: per run, the ticket_number argument
    p_oracle,       \* SpecPair: per run, what the tracker and the classifier answer it
    p_pc,           \* SpecPair: per run, the position of its _triage_tool call
    p_done,         \* SpecPair: per run, the corpus keys whose pool task returned
    p_checks,       \* SpecPair: per run, the keys the classifier was called for
    p_links,        \* SpecPair: per run, the (inward, outward) link_jira_issue calls
    p_comments,     \* SpecPair: per run, the keys add_jira_comment was called for
    p_status,       \* SpecPair: per run, the string returned
    d_target,       \* SpecRepeat: the target of both runs
    d_corpus,       \* SpecRepeat: the corpus both runs fetch
    d_cls,          \* SpecRepeat: the classifier answer per candidate
    d_run,          \* SpecRepeat: which of the two successive runs
    d_pc,           \* SpecRepeat: position of the current run
    d_done,         \* SpecRepeat: candidates whose task has ended in the current run
    d_calls,        \* SpecRepeat: link calls issued, per run
    d_tracker,      \* SpecRepeat: links the tracker holds
    d_queries,      \* SpecRepeat: link look-ups made by the orchestrator
    s_open,         \* SpecSearch: the open tickets of the project, numbered
    s_keyless,      \* SpecSearch: open tickets the tracker reports without a key
    s_pc,           \* SpecSearch: position of the get_all_tickets call
    s_issues,       \* SpecSearch: the issues of the search response
    s_tickets,      \* SpecSearch: what get_all_tickets returned
    r_max,          \* SpecRetry: max_retries of the client
    r_pc,           \* SpecRetry: position of the _make_request call
    r_attempt,      \* SpecRetry: the loop variable attempt
    r_log,          \* SpecRetry: HTTP attempts and waits, in order
    r_result,       \* SpecRetry: how the call ended
    u_input,        \* SpecUi: AppState.input
    u_output,       \* SpecUi: AppState.output
    u_in_progress,  \* SpecUi: AppState.in_progress
    u_error,        \* SpecUi: AppState.error_message
    u_pc,           \* SpecUi: position of the send-click handler
    u_text,         \* SpecUi: input_text of the handler in flight
    u_clicks,       \* SpecUi: send clicks handled
    u_api_calls,    \* SpecUi: calls of call_jira_agent
    u_completed     \* SpecUi: send-click handlers that went past the input test and ended

tvars == <<pc, ticket_number, desc, all_tickets, primary, submitted, wstate,
           check_calls, link_calls, synth_calls, comment, comment_calls,
           status, raised, search, stub, cpu_count>>
mvars == <<m_pc, m_invoke, m_result>>
\* the variables of the specifications other than the triage run's
xvars == <<x_pc, x_shape, x_a, x_tag, x_result>>
hvars == <<h_pc, h_docs, agent, h_log, h_db>>
lvars == <<l_chain, l_pc, l_calls, l_writes>>
pvars == <<p_ticket, p_oracle, p_pc, p_done, p_checks, p_links, p_comments, p_status>>
dvars == <<d_target, d_corpus, d_cls, d_run, d_pc, d_done, d_calls, d_tracker, d_queries>>
svars == <<s_open, s_keyless, s_pc, s_issues, s_tickets>>
rvars == <<r_max, r_pc, r_attempt, r_log, r_result>>
uvars == <<u_input, u_output, u_in_progress, u_error, u_pc, u_text, u_clicks, u_api_calls, u_completed>>
ovars == <<mvars, xvars, hvars, lvars, pvars, dvars, svars, rvars, uvars>>
vars == <<tvars, ovars>>

\* the tickets' texts: all alike, or alternating between two texts
Descriptions ==
    { [k \in Keys |-> <<"a">>],
      [k \in Keys |-> IF k % 2 = 1 THEN <<"a">> ELSE <<"b">>] }

TriageInit ==
    /\ pc = "start"
    /\ ticket_number \in Keys
    /\ desc \in Descriptions
    /\ all_tickets = None
    /\ primary = None
    /\ submitted = {}
    /\ wstate = [k \in Keys |-> "none"]
    /\ check_calls = [k \in Keys |-> <<>>]
    /\ link_calls = [k \in Keys |-> <<>>]
    /\ synth_calls = <<>>
    /\ comment = None
    /\ comment_calls = <<>>
    /\ status = NoStatus
    /\ raised = FALSE
    /\ search = NoSearch
    /\ stub = NoStub

MatchIdle ==
    /\ m_pc = "idle"
    /\ m_invoke = Ok(<<>>)
    /\ m_result = FALSE

ExtractIdle ==
    /\ x_pc = "idle"
    /\ x_shape = "bare"
    /\ x_a = <<>>
    /\ x_tag = <<"t">>
    /\ x_result = Ok(None)

HttpIdle ==
    /\ h_pc = "idle"
    /\ h_docs = {}
    /\ agent = "None"
    /\ h_log = <<>>
    /\ h_db = <<>>

TaskIdle ==
    /\ l_chain = "None"
    /\ l_pc = <<>>
    /\ l_calls = <<>>
    /\ l_writes = <<>>

PairIdle ==
    /\ p_ticket = <<>>
    /\ p_oracle = <<>>
    /\ p_pc = <<>>
    /\ p_done = <<>>
    /\ p_checks = <<>>
    /\ p_links = <<>>
    /\ p_comments = <<>>
    /\ p_status = <<>>

RepeatIdle ==
    /\ d_target = 0
    /\ d_corpus = {}
    /\ d_cls = <<>>
    /\ d_run = 0
    /\ d_pc = "idle"
    /\ d_done = {}
    /\ d_calls = <<>>
    /\ d_tracker = {}
    /\ d_queries = 0

SearchIdle ==
    /\ s_open = {}
    /\ s_keyless = {}
    /\ s_pc = "idle"
    /\ s_issues = {}
    /\ s_tickets = None

RetryIdle ==
    /\ r_max = 0
    /\ r_pc = "idle"
    /\ r_attempt = 0
    /\ r_log = <<>>
    /\ r_result = "none"

UiIdle ==
    /\ u_input = <<>>
    /\ u_output = <<>>
    /\ u_in_progress = FALSE
    /\ u_error = <<>>
    /\ u_pc = "none"
    /\ u_text = <<>>
    /\ u_clicks = 0
    /\ u_api_calls = 0
    /\ u_completed = 0

OthersIdle == MatchIdle /\ ExtractIdle /\ HttpIdle /\ TaskIdle /\ PairIdle /\ RepeatIdle /\ SearchIdle /\ RetryIdle /\ UiIdle

Init == TriageInit /\ cpu_count = CpuCount /\ OthersIdle

\* the corpus of a run that got past the emptiness check
Corpus == all_tickets.val
primary_issue_key == primary.val[1]
primary_issue_data == primary.val[2]

\* `except Exception` of _triage_tool: the status returned for an exception
\* that reached it
TriageExcept(e) ==
    IF Catches("_triage_tool", e)
    THEN /\ status' = ErrorDuringTriage
         /\ raised' = FALSE
    ELSE /\ status' = NoStatus
         /\ raised' = TRUE

\* `if all_tickets is None`
corpus_missing_none_only(o) == ~o.some
\* `if not all_tickets`: None and the empty mapping alike
corpus_missing(o) == ~(o.some /\ DOMAIN o.val # {})

\* the search answers with the open tickets, or the request fails
SearchResponses ==
    {Ok([k \in S |-> desc[k]]) : S \in SUBSET Keys}
        \cup {Raise("JiraAPIError"), Raise("JiraConfigError")}

\* lines 167-175
GetAllTickets ==
    /\ pc = "start"
    /\ \E resp \in SearchResponses :
         LET r == get_all_tickets(resp)
         IN /\ search' = SearchLog(resp, r)
            /\ IF r.exc # "none"
               THEN /\ TriageExcept(r.exc)
                    /\ pc' = "Done"
                    /\ UNCHANGED all_tickets
               ELSE /\ all_tickets' = r.val
                    /\ raised' = FALSE
                    /\ IF corpus_missing(r.val)
                       THEN pc' = "Aborted" /\ status' = NoTicketsFound
                       ELSE pc' = "fetch_primary" /\ status' = NoStatus
    /\ UNCHANGED <<ticket_number, desc, primary, submitted, wstate, check_calls,
                   link_calls, synth_calls, comment, comment_calls, stub, cpu_count, ovars>>

\* the check of line 178 left out
primary_missing_unchecked(o) == FALSE
\* `if not primary_ticket_data`
primary_missing(o) == ~o.some

\* the key an issue requested under its former key now has
MovedTo(n) == IF n = MaxTickets THEN 1 ELSE n + 1

\* the issue request answers with the issue under its current key (the key
\* asked for or, for a moved issue, its new key), or fails
IssueResponses ==
    {Ok(<<k, desc[k]>>) : k \in {ticket_number, MovedTo(ticket_number)}}
        \cup {Raise("JiraAPIError")}

\* lines 177-182
GetTicketData ==
    /\ pc = "fetch_primary"
    /\ \E resp \in IssueResponses :
         LET r == get_ticket_data(resp)
         IN IF r.exc # "none"
            THEN TriageExcept(r.exc) /\ pc' = "Done" /\ UNCHANGED primary
            ELSE /\ primary' = r.val
                 /\ IF primary_missing(r.val)
                    THEN /\ pc' = "Aborted"
                         /\ status' = CouldNotRetrieve(ticket_number)
                         /\ raised' = FALSE
                    ELSE IF ~r.val.some
                    THEN \* unpacking None at line 182 raises TypeError
                         TriageExcept("Exception") /\ pc' = "Done"
                    ELSE pc' = "dispatch" /\ UNCHANGED <<status, raised>>
    /\ UNCHANGED <<ticket_number, desc, all_tickets, submitted, wstate,
                   check_calls, link_calls, synth_calls, comment, comment_calls,
                   search, stub, cpu_count, ovars>>

\* ------------------------------------------------------ relatedness fan-out
InFlight(k) == wstate[k] \in {"queued", "running", "linking"}
Running == {k \in Keys : wstate[k] \in {"running", "linking"}}

\* ThreadPoolExecutor(): the library's default size, the CPUs and four more
max_workers_default == cpu_count + 4
\* ThreadPoolExecutor(max_workers=os.cpu_count())
max_workers == cpu_count

\* executor.map submits one task per item of issues.items(), in the mapping's
\* order (here: ascending key), while tasks submitted earlier already run
Submit ==
    /\ pc = "dispatch"
    /\ submitted # DOMAIN Corpus
    /\ LET k == SetMin(DOMAIN Corpus \ submitted)
       IN /\ submitted' = submitted \cup {k}
          /\ wstate' = [wstate EXCEPT ![k] = "queued"]
    /\ UNCHANGED <<pc, ticket_number, desc, all_tickets, primary, check_calls,
                   link_calls, synth_calls, comment, comment_calls, status,
                   raised, search, stub, cpu_count, ovars>>

\* a pool thread takes the oldest queued task; at most max_workers threads
WorkerStart(k) ==
    /\ wstate[k] = "queued"
    /\ k = SetMin({q \in Keys : wstate[q] = "queued"})
    /\ Cardinality(Running) < max_workers
    /\ wstate' = [wstate EXCEPT ![k] = "running"]
    /\ UNCHANGED <<pc, ticket_number, desc, all_tickets, primary, submitted,
                   check_calls, link_calls, synth_calls, comment, comment_calls,
                   status, raised, search, stub, cpu_count, ovars>>

\* `_llm_check_ticket_match(...)`: the key comparison left out
check_issue_cond_no_key_guard(key, pkey, invoke) ==
    LET m == llm_check_ticket_match(invoke)
    IN [called |-> TRUE, exc |-> m.exc, link |-> m.exc = "none" /\ m.val]

\* `_llm_check_ticket_match(...) and key != primary_issue_key`: the operands
\* in the other order
check_issue_cond_swapped(key, pkey, invoke) ==
    LET m == llm_check_ticket_match(invoke)
    IN [called |-> TRUE, exc |-> m.exc,
        link |-> m.exc = "none" /\ m.val /\ key # pkey]

\* `key != primary_issue_key and self._llm_check_ticket_match(...)`: whether
\* the classifier is called, what it raised, and whether the link follows
check_issue_cond(key, pkey, invoke) ==
    IF key # pkey
    THEN LET m == llm_check_ticket_match(invoke)
         IN [called |-> TRUE, exc |-> m.exc, link |-> m.exc = "none" /\ m.val]
    ELSE [called |-> FALSE, exc |-> "none", link |-> FALSE]

\* what chain.invoke of the linking model may do on a prompt
ClassifierInvocations ==
    { Raise("Exception"),
      Ok(Marker(related) \o TrueStr \o Marker(related)),
      Ok(Marker(related) \o FalseStr \o Marker(related)) }

\* _check_issue_and_link_helper up to the classifier's answer (line 233); an
\* exception is logged by its handler, or else ends the task inside its future
WorkerCheck(k) ==
    /\ wstate[k] = "running"
    /\ \E invoke \in ClassifierInvocations :
         LET c == check_issue_cond(k, primary_issue_key, invoke)
         IN /\ check_calls' =
                 IF c.called
                 THEN [check_calls EXCEPT ![k] = Append(@,
                         [prompt |-> linking_prompt(primary_issue_data, Corpus[k]),
                          invoke |-> invoke,
                          raised |-> c.exc # "none",
                          related |-> c.link])]
                 ELSE check_calls
            /\ wstate' = [wstate EXCEPT ![k] =
                            IF c.exc = "none" /\ c.link THEN "linking"
                            ELSE "returned"]
    /\ UNCHANGED <<pc, ticket_number, desc, all_tickets, primary, submitted,
                   link_calls, synth_calls, comment, comment_calls, status,
                   raised, search, stub, cpu_count, ovars>>

\* the link failure leaves the task and is re-raised in the orchestrating
\* thread, where only the handler of _triage_tool stands
WorkerLinkPropagates(k) ==
    /\ wstate[k] = "linking"
    /\ \E resp \in PostResponses :
         LET r == link_jira_issue(resp)
         IN /\ link_calls' = [link_calls EXCEPT ![k] = Append(@,
                   [inward |-> primary_issue_key, outward |-> k,
                    exc |-> r.exc, ok |-> r.val])]
            /\ wstate' = [wstate EXCEPT ![k] = "returned"]
            /\ IF r.exc # "none"
               THEN TriageExcept(r.exc) /\ pc' = "Done"
               ELSE UNCHANGED <<pc, status, raised>>
    /\ UNCHANGED <<ticket_number, desc, all_tickets, primary, submitted,
                   check_calls, synth_calls, comment, comment_calls, search, stub, cpu_count, ovars>>

\* a failed link cancels the tasks still waiting in the pool's queue
WorkerLinkCancels(k) ==
    /\ wstate[k] = "linking"
    /\ \E resp \in PostResponses :
         LET r == link_jira_issue(resp)
         IN /\ link_calls' = [link_calls EXCEPT ![k] = Append(@,
                   [inward |-> primary_issue_key, outward |-> k,
                    exc |-> r.exc, ok |-> r.val])]
            /\ wstate' = [q \in Keys |->
                            IF q = k THEN "returned"
                            ELSE IF r.exc # "none" /\ wstate[q] = "queued"
                            THEN "returned"
                            ELSE wstate[q]]
    /\ UNCHANGED <<pc, ticket_number, desc, all_tickets, primary, submitted,
                   check_calls, synth_calls, comment, comment_calls, status,
                   raised, search, stub, cpu_count, ovars>>

\* the link is tried again when it failed
WorkerLinkRetries(k) ==
    /\ wstate[k] = "linking"
    /\ \E resp \in PostResponses :
         LET r == link_jira_issue(resp)
         IN /\ link_calls' = [link_calls EXCEPT ![k] = Append(@,
                   [inward |-> primary_issue_key, outward |-> k,
                    exc |-> r.exc, ok |-> r.val])]
            /\ wstate' = [wstate EXCEPT ![k] =
                            IF r.exc # "none" /\ Len(link_calls[k]) < 1
                            THEN "linking" ELSE "returned"]
    /\ UNCHANGED <<pc, ticket_number, desc, all_tickets, primary, submitted,
                   check_calls, synth_calls, comment, comment_calls, status,
                   raised, search, stub, cpu_count, ovars>>

\* _check_issue_and_link_helper from the link on (lines 234-237): one call of
\* link_jira_issue(primary_issue_key, key); its JiraAPIError is logged by the
\* helper's handler (or else ends the task inside its future, which
\* executor.map's discarded result never re-raises)
WorkerLink(k) ==
    /\ wstate[k] = "linking"
    /\ \E resp \in PostResponses :
         LET r == link_jira_issue(resp)
         IN /\ link_calls' = [link_calls EXCEPT ![k] = Append(@,
                   [inward |-> primary_issue_key, outward |-> k,
                    exc |-> r.exc, ok |-> r.val])]
            /\ wstate' = [wstate EXCEPT ![k] = "returned"]
    /\ UNCHANGED <<pc, ticket_number, desc, all_tickets, primary, submitted,
                   check_calls, synth_calls, comment, comment_calls, status,
                   raised, search, stub, cpu_count, ovars>>

\* shutdown(wait=False): the with block left without waiting
JoinReadyNoWait == TRUE
\* leaving the `with` block is shutdown(wait=True): every submitted task has
\* ended
\* the barrier counts a task for every key there is, submitted or not
JoinReadyAllKeys == \A k \in Keys : wstate[k] = "returned"
JoinReady == \A k \in submitted : wstate[k] = "returned"

\* line 217-218, the end of the with block; _find_related_tickets returns
Join ==
    /\ pc = "dispatch"
    /\ submitted = DOMAIN Corpus
    /\ JoinReady
    /\ pc' = "metadata"
    /\ UNCHANGED <<ticket_number, desc, all_tickets, primary, submitted, wstate,
                   check_calls, link_calls, synth_calls, comment, comment_calls,
                   status, raised, search, stub, cpu_count, ovars>>

\* ------------------------------------------------------------ metadata phase
\* f"<description>{primary_issue_data}<description>"
metadata_prompt(text) == Marker(description) \o text \o Marker(description)

\* the `or ''` left out: the f-string renders None as "None"
OrEmptyMissing(o) == IF o.some THEN o.val ELSE <<"N", "o", "n", "e">>
\* `extract_tag_helper(llm_result, tag) or ''`
OrEmpty(o) == IF Truthy(o) THEN o.val ELSE <<>>

\* the four-line comment of lines 289-300
format_comment(llm_result) ==
    user_stories \o <<":", " ">>
        \o OrEmpty(extract_tag_helper(llm_result, user_stories)) \o <<"\n">>
    \o acceptance_criteria \o <<":", " ">>
        \o OrEmpty(extract_tag_helper(llm_result, acceptance_criteria)) \o <<"\n">>
    \o priority \o <<":", " ">>
        \o OrEmpty(extract_tag_helper(llm_result, priority)) \o <<"\n">>
    \o thought \o <<":", " ">>
        \o OrEmpty(extract_tag_helper(llm_result, thought))

Wrap(tag, text) == Marker(tag) \o text \o Marker(tag)

\* what chain.invoke of the product model may do on a prompt
ProductInvocations ==
    { Raise("Exception"),
      Ok(<<>>),
      Ok(<<"x">>),
      Ok(Wrap(priority, High)),
      Ok(Wrap(user_stories, <<"u">>) \o Wrap(acceptance_criteria, <<"c">>)
            \o Wrap(priority, High) \o Wrap(thought, <<"t">>)) }

\* no handler in _generate_ticket_metadata: its exceptions reach _triage_tool
MetadataExceptReported(e) == TriageExcept(e) /\ pc' = "Done"
\* `except Exception` of _generate_ticket_metadata (line 305): the function
\* returns to _triage_tool; an exception it does not catch reaches the
\* handler of _triage_tool
MetadataExcept(e) ==
    IF Catches("_generate_ticket_metadata", e)
    THEN pc' = "generated" /\ UNCHANGED <<status, raised>>
    ELSE TriageExcept(e) /\ pc' = "Done"

\* the four tags in the order of the comment's lines
MetaTags == <<user_stories, acceptance_criteria, priority, thought>>

\* a stubbed completion: per tag, how the field is written
FieldLayouts == {"absent", "open", "empty", "High", "lines"}

FieldText(tag, how) ==
    CASE how = "absent" -> <<>>
      [] how = "open" -> Marker(tag)
      [] how = "empty" -> Wrap(tag, <<>>)
      [] how = "High" -> Wrap(tag, High)
      [] how = "lines" -> Wrap(tag, <<"u", "\n", "v">>)

\* the stubbed completion: the fields in the comment's order, in the
\* opposite order, or with other text around them
StubOutput(st) ==
    LET f(i) == FieldText(MetaTags[i], st.fields[i])
    IN CASE st.layout = "plain" -> f(1) \o f(2) \o f(3) \o f(4)
         [] st.layout = "reversed" -> f(4) \o f(3) \o f(2) \o f(1)
         [] st.layout = "padded" ->
              <<"x">> \o f(1) \o <<" ">> \o f(2) \o <<"\n">> \o f(3) \o f(4) \o <<"y">>

Stubs == [fields : [1..4 -> FieldLayouts], layout : {"plain", "reversed", "padded"}]

\* the completions the product model may give in this run
ProductChoices ==
    IF stub.layout = "none" THEN ProductInvocations ELSE {Ok(StubOutput(stub))}

\* a second run_llm call when the first gave nothing
AfterNoResultRetry == IF synth_calls = <<>> THEN "metadata" ELSE "generated"
\* the function returns to its caller as if the run had been given up
AfterNoResultAborts == "Aborted"
\* `if not llm_result: ... return` (lines 284-286): back in _triage_tool
AfterNoResult == "generated"

\* _generate_ticket_metadata up to the comment text (lines 276-300)
GenerateMetadata ==
    /\ pc = "metadata"
    /\ \E invoke \in ProductChoices :
         LET r == run_llm(invoke)
         IN /\ synth_calls' = Append(synth_calls,
                   [prompt |-> metadata_prompt(primary_issue_data),
                    failed |-> invoke.exc # "none",
                    output |-> r.val])
            /\ IF r.exc # "none"
               THEN MetadataExcept(r.exc) /\ UNCHANGED comment
               ELSE IF ~Truthy(r.val)
               THEN /\ pc' = AfterNoResult
                    /\ UNCHANGED <<comment, status, raised>>
               ELSE /\ comment' = Some(format_comment(r.val.val))
                    /\ pc' = "comment"
                    /\ UNCHANGED <<status, raised>>
    /\ UNCHANGED <<ticket_number, desc, all_tickets, primary, submitted, wstate,
                   check_calls, link_calls, comment_calls, search, stub, cpu_count, ovars>>

\* add_jira_comment(primary_issue_key, comment) (line 303) and the return of
\* _generate_ticket_metadata
AddComment ==
    /\ pc = "comment"
    /\ \E resp \in PostResponses :
         LET r == add_jira_comment(resp)
         IN /\ comment_calls' = Append(comment_calls,
                   [key |-> primary_issue_key, body |-> comment.val,
                    exc |-> r.exc, ok |-> r.val])
            /\ IF r.exc # "none"
               THEN MetadataExcept(r.exc)
               ELSE pc' = "generated" /\ UNCHANGED <<status, raised>>
    /\ UNCHANGED <<ticket_number, desc, all_tickets, primary, submitted, wstate,
                   check_calls, link_calls, synth_calls, comment, search, stub,
                   cpu_count, ovars>>

\* lines 190-191: `return "Task complete"`
TriageReturn ==
    /\ pc = "generated"
    /\ pc' = "Done"
    /\ status' = TaskComplete
    /\ UNCHANGED <<ticket_number, desc, all_tickets, primary, submitted, wstate,
                   check_calls, link_calls, synth_calls, comment, comment_calls,
                   raised, search, stub, cpu_count, ovars>>

Next ==
    \/ GetAllTickets
    \/ GetTicketData
    \/ Submit
    \/ \E k \in Keys : WorkerStart(k)
    \/ \E k \in Keys : WorkerCheck(k)
    \/ \E k \in Keys : WorkerLink(k)
    \/ Join
    \/ GenerateMetadata
    \/ AddComment
    \/ TriageReturn

Spec == Init /\ [][Next]_vars

\* ------------------------------------------- the triage run, scheduled fairly
\* the pool has one thread per CPU of the host, whatever their number; the
\* target is the first or the last key, the texts are all alike (they reach
\* the prompts only)
InitLive ==
    /\ TriageInit
    /\ ticket_number \in {1, MaxTickets}
    /\ desc = [k \in Keys |-> <<"a">>]
    /\ cpu_count \in 1..CpuCount
    /\ OthersIdle

\* every tracker and LLM call returns or raises, and a thread that can run
\* is scheduled: a step that is possible is not put off for ever
Fairness == WF_vars(Next)

SpecLive == InitLive /\ [][Next]_vars /\ Fairness

\* --------------------------------------------- one classifier call, any text
Pieces == {Marker(related), TrueStr, FalseStr, <<"t", "r", "u", "e">>, <<" ">>}

RECURSIVE Flatten(_)
Flatten(ps) == IF ps = <<>> THEN <<>> ELSE Head(ps) \o Flatten(Tail(ps))

Completions == {Flatten(ps) : ps \in UNION {[1..n -> Pieces] : n \in 0..MaxPieces}}

MatchInvocations == {Ok(t) : t \in Completions} \cup {Raise(e) : e \in ExceptionKinds}

TriageIdle ==
    /\ pc = "idle"
    /\ ticket_number = 1
    /\ desc = [k \in Keys |-> <<"a">>]
    /\ all_tickets = None
    /\ primary = None
    /\ submitted = {}
    /\ wstate = [k \in Keys |-> "none"]
    /\ check_calls = [k \in Keys |-> <<>>]
    /\ link_calls = [k \in Keys |-> <<>>]
    /\ synth_calls = <<>>
    /\ comment = None
    /\ comment_calls = <<>>
    /\ status = NoStatus
    /\ raised = FALSE
    /\ search = NoSearch
    /\ stub = NoStub
    /\ cpu_count = CpuCount

InitMatch ==
    /\ TriageIdle
    /\ UiIdle
    /\ RetryIdle
    /\ SearchIdle
    /\ RepeatIdle
    /\ PairIdle
    /\ TaskIdle
    /\ m_pc = "call"
    /\ m_invoke \in MatchInvocations
    /\ m_result = FALSE
    /\ ExtractIdle
    /\ HttpIdle

\* self._llm_check_ticket_match(ticket1, ticket2) called and returned
Classify ==
    /\ m_pc = "call"
    /\ LET m == llm_check_ticket_match(m_invoke)
       IN /\ m_pc' = IF m.exc = "none" THEN "returned" ELSE "raised"
          /\ m_result' = m.val
    /\ UNCHANGED <<m_invoke, tvars, xvars, hvars, lvars, pvars, dvars, svars, rvars, uvars>>

NextMatch == Classify

SpecMatch == InitMatch /\ [][NextMatch]_vars

\* ------------------------------------- the metadata phase, stubbed completion
\* a run whose link phase has ended: one ticket, the target itself
InitMeta ==
    /\ pc = "metadata"
    /\ ticket_number = 1
    /\ desc = [k \in Keys |-> <<"a">>]
    /\ all_tickets = Some([k \in {1} |-> <<"a">>])
    /\ primary = Some(<<1, <<"a">>>>)
    /\ submitted = {1}
    /\ wstate = [k \in Keys |-> IF k = 1 THEN "returned" ELSE "none"]
    /\ check_calls = [k \in Keys |-> <<>>]
    /\ link_calls = [k \in Keys |-> <<>>]
    /\ synth_calls = <<>>
    /\ comment = None
    /\ comment_calls = <<>>
    /\ status = NoStatus
    /\ raised = FALSE
    /\ search = [tracker |-> "answered", exc |-> "none"]
    /\ stub \in Stubs
    /\ cpu_count = CpuCount
    /\ OthersIdle

NextMeta ==
    \/ GenerateMetadata
    \/ AddComment
    \/ TriageReturn

SpecMeta == InitMeta /\ [][NextMeta]_vars

\* ----------------------------------------- one extract_tag_helper call
\* the characters of a payload: those of the marker <t>, a line end, and "."
PayloadChars == {"<", "t", ">", "\n", "."}

Payloads == UNION {[1..n -> PayloadChars] : n \in 0..MaxPayloadLen}

\* the tag argument: a letter, and names holding a character the pattern
\* language gives a meaning to
TagNames == {<<"t">>, <<".">>, <<"(">>}

\* the text searched: the payload between two <t> markers, after one <t>
\* marker, or by itself
ExtractText ==
    CASE x_shape = "wrapped" -> Wrap(<<"t">>, x_a)
      [] x_shape = "open" -> Marker(<<"t">>) \o x_a
      [] x_shape = "bare" -> x_a

InitExtract ==
    /\ TriageIdle
    /\ UiIdle
    /\ RetryIdle
    /\ SearchIdle
    /\ RepeatIdle
    /\ PairIdle
    /\ TaskIdle
    /\ MatchIdle
    /\ x_pc = "call"
    /\ x_shape \in {"wrapped", "open", "bare"}
    /\ x_a \in Payloads
    /\ x_tag \in TagNames
    /\ x_result = Ok(None)
    /\ HttpIdle

\* extract_tag_helper(text, tag) called and ended
ExtractTag ==
    /\ x_pc = "call"
    /\ x_result' = extract_tag_call(ExtractText, x_tag)
    /\ x_pc' = "returned"
    /\ UNCHANGED <<x_shape, x_a, x_tag, tvars, mvars, hvars, lvars, pvars, dvars, svars, rvars, uvars>>

NextExtract == ExtractTag

SpecExtract == InitExtract /\ [][NextExtract]_vars

\* ------------------------------------------------ startup and the HTTP view
\* utils_dir / "system_prompts.json", utils_dir / "example_prompts.json"
ConfigDocs == {"system_prompts.json", "example_prompts.json"}

\* JiraAgentManager(): _load_configuration raises FileNotFoundError when a
\* document is missing (lines 113-116) and re-raises it (152-154); with both
\* documents the agent is built
JiraAgentManager(docs) ==
    IF docs # ConfigDocs
    THEN [exc |-> "FileNotFoundError", val |-> "None"]
    ELSE [exc |-> "none", val |-> "agent"]

\* get_agent(): manager.agent, or None when get_agent_manager() raised
get_agent(docs) ==
    LET m == JiraAgentManager(docs)
    IN IF m.exc # "none" /\ Catches("get_agent", m.exc)
       THEN [exc |-> "none", val |-> "None"]
       ELSE m

\* a text by its length: leading whitespace, the rest up to the last
\* non-blank character, trailing whitespace
Str(l, b, t) == [lead |-> l, body |-> b, trail |-> t]
len(s) == s.lead + s.body + s.trail
strip(s) == Str(0, s.body, 0)
\* a field that is missing, or null
NoStr == [some |-> FALSE, val |-> Str(0, 0, 0)]

\* `if len(value) > 10000`
MaxRequestChars == 10000

\* request.data["request"]: missing, empty, blank, a text, a text with
\* whitespace around it, a text over the limit
RequestData ==
    {NoStr, Some(Str(0, 0, 0)), Some(Str(1, 0, 0)), Some(Str(0, 2, 0)),
     Some(Str(1, 2, 1)), Some(Str(0, MaxRequestChars + 1, 0))}

\* ModelRequestSerializer.is_valid(): the field is required, and
\* validate_request rejects an empty or blank text and one over the limit
request_is_valid(data) ==
    /\ data.some
    /\ data.val.body > 0
    /\ len(data.val) <= MaxRequestChars

\* validated_data.get('request'): `return value.strip()`
validated_request(data) == strip(data.val)

\* agent_response.get('output'): null, empty, blank, a text, a text with
\* a trailing line end
Outputs ==
    {NoStr, Some(Str(0, 0, 0)), Some(Str(1, 0, 0)), Some(Str(0, 3, 0)),
     Some(Str(0, 3, 1))}

\* what agent.invoke does: raises, returns None, {}, a dict without
\* 'output', or a dict with 'output'
AgentResponses ==
    {[exc |-> "Exception", keys |-> "raised", output |-> NoStr],
     [exc |-> "none", keys |-> "None", output |-> NoStr],
     [exc |-> "none", keys |-> "empty", output |-> NoStr],
     [exc |-> "none", keys |-> "steps", output |-> NoStr]}
        \cup {[exc |-> "none", keys |-> "output", output |-> o] : o \in Outputs}

\* the response is saved and returned without the serializer's check
response_is_valid_unchecked(output) == TRUE
\* ModelResponseSerializer(data={"response": output}).is_valid(): the model's
\* TextField takes neither null nor a blank text
response_is_valid(output) == output.some /\ output.val.body > 0

Response(st, err, out, id) ==
    [status |-> st, error |-> err, output |-> out, request_id |-> id]

\* `except Exception` of the view (lines 98-106)
InternalServerError == Response(500, "Internal server error", NoStr, 0)

\* JiraAgentApiView.post: the response, whether a row was saved, whether the
\* agent was invoked
post(data, agt, resp, save_ok, id) ==
    IF ~request_is_valid(data)
    THEN [response |-> Response(400, "Invalid request data", NoStr, 0),
          save |-> FALSE, invoked |-> FALSE]
    ELSE IF agt = "None"
    THEN \* None.invoke raises AttributeError
         [response |-> InternalServerError, save |-> FALSE, invoked |-> FALSE]
    ELSE IF resp.exc # "none"
    THEN [response |-> InternalServerError, save |-> FALSE, invoked |-> TRUE]
    ELSE IF resp.keys # "output"
    THEN [response |-> Response(500, "Agent returned empty response", NoStr, 0),
          save |-> FALSE, invoked |-> TRUE]
    ELSE IF ~response_is_valid(resp.output)
    THEN [response |-> Response(500, "Invalid response data", NoStr, 0),
          save |-> FALSE, invoked |-> TRUE]
    ELSE IF ~save_ok
    THEN \* model_request.save() raises
         [response |-> InternalServerError, save |-> FALSE, invoked |-> TRUE]
    ELSE [response |-> Response(200, "", resp.output, id),
          save |-> TRUE, invoked |-> TRUE]

\* the agent's answer and the database are inputs of the call only as far as
\* post reaches them
Consulted(data, agt, resp, save_ok) ==
    LET reaches_agent == request_is_valid(data) /\ agt # "None"
        reaches_save == /\ reaches_agent
                        /\ resp.keys = "output"
                        /\ response_is_valid(resp.output)
    IN /\ ~reaches_agent => resp.keys = "None"
       /\ ~reaches_save => save_ok

InitHttp ==
    /\ TriageIdle
    /\ UiIdle
    /\ RetryIdle
    /\ SearchIdle
    /\ RepeatIdle
    /\ PairIdle
    /\ TaskIdle
    /\ MatchIdle
    /\ ExtractIdle
    /\ h_pc = "boot"
    /\ h_docs \in SUBSET ConfigDocs
    /\ agent = "None"
    /\ h_log = <<>>
    /\ h_db = <<>>

\* the import of api.utils.model_utils: `agent = get_agent()` (line 363)
ImportModelUtils ==
    /\ h_pc = "boot"
    /\ LET r == get_agent(h_docs)
       IN IF r.exc = "none"
          THEN agent' = r.val /\ h_pc' = "serving"
          ELSE agent' = "None" /\ h_pc' = "crashed"
    /\ UNCHANGED <<h_docs, h_log, h_db, tvars, mvars, xvars, lvars, pvars, dvars, svars, rvars, uvars>>

\* one POST handled by JiraAgentApiView.post
Post ==
    /\ h_pc = "serving"
    /\ Len(h_log) < MaxRequests
    /\ \E data \in RequestData, resp \in AgentResponses, save_ok \in BOOLEAN :
         /\ Consulted(data, agent, resp, save_ok)
         /\ LET id == Len(h_db) + 1
                r == post(data, agent, resp, save_ok, id)
            IN /\ h_log' = Append(h_log,
                      [data |-> data, agent_response |-> resp, save_ok |-> save_ok,
                       response |-> r.response, invoked |-> r.invoked,
                       saved |-> r.save])
               /\ h_db' = IF r.save
                          THEN Append(h_db, [id |-> id,
                                             request |-> validated_request(data),
                                             response |-> resp.output.val])
                          ELSE h_db
    /\ UNCHANGED <<h_pc, h_docs, agent, tvars, mvars, xvars, lvars, pvars, dvars, svars, rvars, uvars>>

NextHttp == ImportModelUtils \/ Post

SpecHttp == InitHttp /\ [][NextHttp]_vars

\* ------------------------------------ run_llm on the shared task object
Threads == 1..TaskThreads

\* LLMTask.__init__ has run (`self._chain = None`); no thread is in run_llm
InitTask ==
    /\ TriageIdle
    /\ UiIdle
    /\ RetryIdle
    /\ SearchIdle
    /\ RepeatIdle
    /\ PairIdle
    /\ MatchIdle
    /\ ExtractIdle
    /\ HttpIdle
    /\ l_chain = "None"
    /\ l_pc = [w \in Threads |-> "idle"]
    /\ l_calls = [w \in Threads |-> 0]
    /\ l_writes = <<>>

\* a task of thread w calls linking_model.run_llm(prompt)
RunLlmCall(w) ==
    /\ l_pc[w] = "idle"
    /\ l_calls[w] < MaxRunCalls
    /\ l_pc' = [l_pc EXCEPT ![w] = "test"]
    /\ l_calls' = [l_calls EXCEPT ![w] = @ + 1]
    /\ UNCHANGED <<l_chain, l_writes, tvars, mvars, xvars, hvars, pvars, dvars, svars, rvars, uvars>>

\* `if self._chain is None` (line 77): the field is read
RunLlmTest(w) ==
    /\ l_pc[w] = "test"
    /\ l_pc' = [l_pc EXCEPT ![w] = IF l_chain = "None" THEN "build" ELSE "invoke"]
    /\ UNCHANGED <<l_chain, l_calls, l_writes, tvars, mvars, xvars, hvars, pvars, dvars, svars, rvars, uvars>>

\* `self._chain = self.construct_prompt() | self.llm` (line 78): the field is
\* assigned, unless building the chain raised (then run_llm returns None)
RunLlmBuild(w) ==
    /\ l_pc[w] = "build"
    /\ \E built \in BOOLEAN :
         IF built
         THEN /\ l_chain' = "chain"
              /\ l_writes' = Append(l_writes, w)
              /\ l_pc' = [l_pc EXCEPT ![w] = "invoke"]
         ELSE /\ l_pc' = [l_pc EXCEPT ![w] = "idle"]
              /\ UNCHANGED <<l_chain, l_writes>>
    /\ UNCHANGED <<l_calls, tvars, mvars, xvars, hvars, pvars, dvars, svars, rvars, uvars>>

\* `self._chain.invoke(...)` (line 80) returns or raises; run_llm returns
RunLlmInvoke(w) ==
    /\ l_pc[w] = "invoke"
    /\ l_pc' = [l_pc EXCEPT ![w] = "idle"]
    /\ UNCHANGED <<l_chain, l_calls, l_writes, tvars, mvars, xvars, hvars, pvars, dvars, svars, rvars, uvars>>

NextTask ==
    \E w \in Threads :
        RunLlmCall(w) \/ RunLlmTest(w) \/ RunLlmBuild(w) \/ RunLlmInvoke(w)

SpecTask == InitTask /\ [][NextTask]_vars

\* ------------------------------- two triage runs on the one agent manager
\* the two _triage_tool calls, in two threads of the service
Runs == {"a", "b"}

OtherRun(r) == CHOOSE q \in Runs : q # r

\* what the classifier's LLM answers for each candidate of a run: related,
\* unrelated, or a failed invocation
ClassifierOracles ==
    { [k \in Keys |-> "related"],
      [k \in Keys |-> IF k % 2 = 1 THEN "related" ELSE "unrelated"],
      [k \in Keys |-> IF k % 2 = 1 THEN "fails" ELSE "related"] }

\* what the tracker answers a run (both fetches, no corpus, no target), what
\* its classifier calls answer, and whether its synthesis yields a result
Oracles ==
    [avail : {"ok"}, cls : ClassifierOracles, synth : BOOLEAN]
        \cup [avail : {"no_corpus", "no_target"},
              cls : {[k \in Keys |-> "related"]}, synth : {TRUE}]

OracleInvoke(answer) ==
    CASE answer = "related" -> Ok(Wrap(related, TrueStr))
      [] answer = "unrelated" -> Ok(Wrap(related, FalseStr))
      [] answer = "fails" -> Raise("Exception")

InitPair ==
    /\ TriageIdle
    /\ UiIdle
    /\ RetryIdle
    /\ SearchIdle
    /\ RepeatIdle
    /\ MatchIdle
    /\ ExtractIdle
    /\ HttpIdle
    /\ TaskIdle
    /\ p_ticket \in {t \in [Runs -> Keys] : t["a"] # t["b"]}
    /\ p_oracle \in [Runs -> Oracles]
    /\ p_pc = [r \in Runs |-> "start"]
    /\ p_done = [r \in Runs |-> {}]
    /\ p_checks = [r \in Runs |-> {}]
    /\ p_links = [r \in Runs |-> {}]
    /\ p_comments = [r \in Runs |-> {}]
    /\ p_status = [r \in Runs |-> NoStatus]

\* the key the helper links from is the one of the manager's latest call
helper_primary_key_of_manager(r) ==
    IF p_pc[OtherRun(r)] # "start" THEN p_ticket[OtherRun(r)] ELSE p_ticket[r]
\* `key, data, primary_issue_key, primary_issue_data = args` (line 230): the
\* key is the call's own, handed down in the task's argument tuple
helper_primary_key(r) == p_ticket[r]

\* lines 171-175 of run r
PairGetAllTickets(r) ==
    /\ p_pc[r] = "start"
    /\ IF p_oracle[r].avail = "no_corpus"
       THEN /\ p_pc' = [p_pc EXCEPT ![r] = "Aborted"]
            /\ p_status' = [p_status EXCEPT ![r] = NoTicketsFound]
       ELSE /\ p_pc' = [p_pc EXCEPT ![r] = "fetch_primary"]
            /\ UNCHANGED p_status
    /\ UNCHANGED <<p_ticket, p_oracle, p_done, p_checks, p_links, p_comments,
                   tvars, mvars, xvars, hvars, lvars, dvars, svars, rvars, uvars>>

\* lines 177-182 of run r
PairGetTicketData(r) ==
    /\ p_pc[r] = "fetch_primary"
    /\ IF p_oracle[r].avail = "no_target"
       THEN /\ p_pc' = [p_pc EXCEPT ![r] = "Aborted"]
            /\ p_status' = [p_status EXCEPT ![r] = CouldNotRetrieve(p_ticket[r])]
       ELSE /\ p_pc' = [p_pc EXCEPT ![r] = "dispatch"]
            /\ UNCHANGED p_status
    /\ UNCHANGED <<p_ticket, p_oracle, p_done, p_checks, p_links, p_comments,
                   tvars, mvars, xvars, hvars, lvars, dvars, svars, rvars, uvars>>

\* one task of run r's own pool: _check_issue_and_link_helper for key k;
\* the tasks of one run are taken in submission order here, the two runs
\* interleave freely
PairTask(r, k) ==
    /\ p_pc[r] = "dispatch"
    /\ k \notin p_done[r]
    /\ k = SetMin(Keys \ p_done[r])
    /\ LET pkey == helper_primary_key(r)
           c == check_issue_cond(k, pkey, OracleInvoke(p_oracle[r].cls[k]))
       IN /\ p_checks' = [p_checks EXCEPT ![r] = IF c.called THEN @ \cup {k} ELSE @]
          /\ p_links' = [p_links EXCEPT ![r] =
                           IF c.exc = "none" /\ c.link THEN @ \cup {<<pkey, k>>} ELSE @]
    /\ p_done' = [p_done EXCEPT ![r] = @ \cup {k}]
    /\ UNCHANGED <<p_ticket, p_oracle, p_pc, p_comments, p_status,
                   tvars, mvars, xvars, hvars, lvars, dvars, svars, rvars, uvars>>

\* run r leaves its pool's with-block and _generate_ticket_metadata posts the
\* comment, if there is one, on the key it was called with (lines 185-188,
\* 284-286, 303)
PairMetadata(r) ==
    /\ p_pc[r] = "dispatch"
    /\ p_done[r] = Keys
    /\ p_comments' = [p_comments EXCEPT ![r] =
                        IF p_oracle[r].synth THEN @ \cup {helper_primary_key(r)} ELSE @]
    /\ p_pc' = [p_pc EXCEPT ![r] = "generated"]
    /\ UNCHANGED <<p_ticket, p_oracle, p_done, p_checks, p_links, p_status,
                   tvars, mvars, xvars, hvars, lvars, dvars, svars, rvars, uvars>>

\* lines 190-191 of run r
PairReturn(r) ==
    /\ p_pc[r] = "generated"
    /\ p_pc' = [p_pc EXCEPT ![r] = "Done"]
    /\ p_status' = [p_status EXCEPT ![r] = TaskComplete]
    /\ UNCHANGED <<p_ticket, p_oracle, p_done, p_checks, p_links, p_comments,
                   tvars, mvars, xvars, hvars, lvars, dvars, svars, rvars, uvars>>

NextPair ==
    \E r \in Runs :
        \/ PairGetAllTickets(r)
        \/ PairGetTicketData(r)
        \/ \E k \in Keys : PairTask(r, k)
        \/ PairMetadata(r)
        \/ PairReturn(r)

SpecPair == InitPair /\ [][NextPair]_vars

\* ------------------------------------- two successive runs on one target
\* the runs of one target, one after the other
RunNumbers == 1..2

InitRepeat ==
    /\ TriageIdle
    /\ UiIdle
    /\ RetryIdle
    /\ SearchIdle
    /\ MatchIdle
    /\ ExtractIdle
    /\ HttpIdle
    /\ TaskIdle
    /\ PairIdle
    /\ d_target \in Keys
    /\ d_corpus \in (SUBSET Keys) \ {{}}
    /\ d_cls \in ClassifierOracles
    /\ d_run = 1
    /\ d_pc = "dispatch"
    /\ d_done = {}
    /\ d_calls = [n \in RunNumbers |-> {}]
    /\ d_tracker = {}
    /\ d_queries = 0

\* the helper asks the tracker for the link first and posts only a new one
helper_link_if_absent(c, pkey, key) ==
    [issue |-> c.link /\ <<pkey, key>> \notin d_tracker, queried |-> c.link]
\* lines 233-234: the condition alone decides the call of link_jira_issue
helper_link(c, pkey, key) == [issue |-> c.link, queried |-> FALSE]

\* _check_issue_and_link_helper for key k in the current run; the tracker
\* keeps the link when it answers 201
RepeatTask(k) ==
    /\ d_pc = "dispatch"
    /\ k \in d_corpus \ d_done
    /\ LET c == check_issue_cond(k, d_target, OracleInvoke(d_cls[k]))
           h == helper_link(c, d_target, k)
       IN /\ d_queries' = d_queries + (IF h.queried THEN 1 ELSE 0)
          /\ IF c.exc = "none" /\ h.issue
             THEN /\ d_calls' = [d_calls EXCEPT ![d_run] = @ \cup {<<d_target, k>>}]
                  /\ \E resp \in PostResponses :
                       d_tracker' = IF link_jira_issue(resp).val
                                    THEN d_tracker \cup {<<d_target, k>>}
                                    ELSE d_tracker
             ELSE UNCHANGED <<d_calls, d_tracker>>
    /\ d_done' = d_done \cup {k}
    /\ UNCHANGED <<d_target, d_corpus, d_cls, d_run, d_pc,
                   tvars, mvars, xvars, hvars, lvars, pvars, svars, rvars, uvars>>

\* the with-block of _find_related_tickets ends and the run returns
RepeatReturn ==
    /\ d_pc = "dispatch"
    /\ d_done = d_corpus
    /\ d_pc' = "Done"
    /\ UNCHANGED <<d_target, d_corpus, d_cls, d_run, d_done, d_calls, d_tracker,
                   d_queries, tvars, mvars, xvars, hvars, lvars, pvars, svars, rvars, uvars>>

\* the same target is triaged again: same corpus, same classifier answers
RepeatAgain ==
    /\ d_pc = "Done"
    /\ d_run = 1
    /\ d_run' = 2
    /\ d_pc' = "dispatch"
    /\ d_done' = {}
    /\ UNCHANGED <<d_target, d_corpus, d_cls, d_calls, d_tracker, d_queries,
                   tvars, mvars, xvars, hvars, lvars, pvars, svars, rvars, uvars>>

NextRepeat ==
    \/ \E k \in Keys : RepeatTask(k)
    \/ RepeatReturn
    \/ RepeatAgain

SpecRepeat == InitRepeat /\ [][NextRepeat]_vars

\* ------------------------------------------ the search of get_all_tickets
\* `&maxResults=1000` of the search request
maxResults == 1000

\* how many open tickets beyond one page the project may have
MaxExtra == 2

InitSearch ==
    /\ TriageIdle
    /\ UiIdle
    /\ RetryIdle
    /\ MatchIdle
    /\ ExtractIdle
    /\ HttpIdle
    /\ TaskIdle
    /\ PairIdle
    /\ RepeatIdle
    /\ \E n \in 0..(maxResults + MaxExtra) : s_open = 1..n
    /\ s_keyless \in {{}, {1}}
    /\ s_pc = "start"
    /\ s_issues = {}
    /\ s_tickets = None

\* the one GET of line 205: the tracker answers with the first maxResults
\* issues that match the query
search_page(open) == {i \in open : i <= maxResults}

\* lines 202-207: the request and its decoded issues, or a failure caught by
\* line 222
SearchRequest ==
    /\ s_pc = "start"
    /\ \/ /\ s_issues' = search_page(s_open)
          /\ s_pc' = "answered"
          /\ UNCHANGED s_tickets
       \/ /\ s_tickets' = None
          /\ s_pc' = "returned"
          /\ UNCHANGED s_issues
    /\ UNCHANGED <<s_open, s_keyless, tvars, mvars, xvars, hvars, lvars, pvars, dvars, rvars, uvars>>

\* lines 209-220: an issue whose parsing fails for want of a key is skipped
SearchParse ==
    /\ s_pc = "answered"
    /\ s_tickets' = Some(s_issues \ s_keyless)
    /\ s_pc' = "returned"
    /\ UNCHANGED <<s_open, s_keyless, s_issues, tvars, mvars, xvars, hvars, lvars,
                   pvars, dvars, rvars, uvars>>

NextSearch == SearchRequest \/ SearchParse

SpecSearch == InitSearch /\ [][NextSearch]_vars

\* ------------------------------------------- APIClient._make_request (UI)
\* the largest max_retries a client is configured with (the default is 3)
MaxRetries == 4

RECURSIVE Pow2(_)
\* 2 ** n
Pow2(n) == IF n = 0 THEN 1 ELSE 2 * Pow2(n - 1)

\* log entries: one HTTP attempt with its outcome, one time.sleep
AttemptEntry(n, outcome) == [kind |-> "attempt", n |-> n, outcome |-> outcome, secs |-> 0]
SleepEntry(n, secs) == [kind |-> "sleep", n |-> n, outcome |-> "none", secs |-> secs]

\* session.request followed by raise_for_status: a response, a Timeout, or
\* another RequestException (HTTPError included)
AttemptOutcomes == {"ok", "Timeout", "RequestException"}

InitRetry ==
    /\ TriageIdle
    /\ UiIdle
    /\ MatchIdle
    /\ ExtractIdle
    /\ HttpIdle
    /\ TaskIdle
    /\ PairIdle
    /\ RepeatIdle
    /\ SearchIdle
    /\ r_max \in 0..MaxRetries
    /\ r_pc = "loop"
    /\ r_attempt = 0
    /\ r_log = <<>>
    /\ r_result = "none"

\* `for attempt in range(self.max_retries)`: the next value, or the end of
\* the range, after which the function body ends and None is returned
ForAttempt ==
    /\ r_pc = "loop"
    /\ IF r_attempt < r_max
       THEN r_pc' = "request" /\ UNCHANGED r_result
       ELSE r_pc' = "done" /\ r_result' = "None"
    /\ UNCHANGED <<r_max, r_attempt, r_log, tvars, mvars, xvars, hvars, lvars,
                   pvars, dvars, svars, uvars>>

\* `attempt == self.max_retries - 1`
is_last_attempt == r_attempt = r_max - 1

\* lines 77-99: one attempt and the handler of its exception
SessionRequest ==
    /\ r_pc = "request"
    /\ \E outcome \in AttemptOutcomes :
         /\ r_log' = Append(r_log, AttemptEntry(r_attempt, outcome))
         /\ CASE outcome = "ok" ->
                   r_pc' = "done" /\ r_result' = "response" /\ UNCHANGED r_attempt
              [] outcome # "ok" /\ is_last_attempt ->
                   r_pc' = "done" /\ r_result' = "APIError" /\ UNCHANGED r_attempt
              [] outcome = "Timeout" /\ ~is_last_attempt ->
                   \* lines 91-94: the handler ends, no sleep; next iteration
                   r_pc' = "loop" /\ r_attempt' = r_attempt + 1 /\ UNCHANGED r_result
              [] outcome = "RequestException" /\ ~is_last_attempt ->
                   r_pc' = "sleep" /\ UNCHANGED <<r_attempt, r_result>>
    /\ UNCHANGED <<r_max, tvars, mvars, xvars, hvars, lvars, pvars, dvars, svars, uvars>>

\* line 102, inside `except RequestException`: time.sleep(2 ** attempt)
Sleep ==
    /\ r_pc = "sleep"
    /\ r_log' = Append(r_log, SleepEntry(r_attempt, Pow2(r_attempt)))
    /\ r_attempt' = r_attempt + 1
    /\ r_pc' = "loop"
    /\ UNCHANGED <<r_max, r_result, tvars, mvars, xvars, hvars, lvars, pvars,
                   dvars, svars, uvars>>

NextRetry == ForAttempt \/ SessionRequest \/ Sleep

SpecRetry == InitRetry /\ [][NextRetry]_vars

\* --------------------------------------------- the chat page's handlers
\* send clicks one behaviour follows
MaxClicks == 3

\* what the text area may hold
UiInputs == {<<>>, <<" ">>, <<"a">>, <<" ", "b", " ">>}

\* what call_jira_agent may return as a result
UiResults == {<<"r">>, <<"q", "<br>">>}

\* `not self.state.input or not self.state.input.strip()`
is_blank(text) == \A i \in 1..Len(text) : text[i] = " "

\* "An error occurred while processing your request"
ProcessingError == <<"error">>

InitUi ==
    /\ TriageIdle
    /\ MatchIdle
    /\ ExtractIdle
    /\ HttpIdle
    /\ TaskIdle
    /\ PairIdle
    /\ RepeatIdle
    /\ SearchIdle
    /\ RetryIdle
    /\ u_input = <<>>
    /\ u_output = <<>>
    /\ u_in_progress = FALSE
    /\ u_error = <<>>
    /\ u_pc = "idle"
    /\ u_text = <<>>
    /\ u_clicks = 0
    /\ u_api_calls = 0
    /\ u_completed = 0

\* _handle_textarea_blur: set_input(event.value)
TextareaBlur ==
    /\ \E value \in UiInputs : u_input' = value
    /\ UNCHANGED <<u_output, u_in_progress, u_error, u_pc, u_text, u_clicks,
                   u_api_calls, u_completed, tvars, mvars, xvars, hvars, lvars,
                   pvars, dvars, svars, rvars>>

\* _handle_clear_click: clear_output()
ClearClick ==
    /\ u_output' = <<>>
    /\ u_error' = <<>>
    /\ UNCHANGED <<u_input, u_in_progress, u_pc, u_text, u_clicks, u_api_calls,
                   u_completed, tvars, mvars, xvars, hvars, lvars,
                   pvars, dvars, svars, rvars>>

\* _handle_send_click up to the call of _process_request (lines 197-208)
SendClick ==
    /\ u_pc = "idle"
    /\ u_clicks < MaxClicks
    /\ u_clicks' = u_clicks + 1
    /\ IF is_blank(u_input)
       THEN UNCHANGED <<u_input, u_in_progress, u_error, u_pc, u_text>>
       ELSE /\ u_in_progress' = TRUE
            /\ u_error' = <<>>
            /\ u_text' = u_input
            /\ u_input' = <<>>
            /\ u_pc' = "processing"
    /\ UNCHANGED <<u_output, u_api_calls, u_completed, tvars, mvars, xvars, hvars, lvars,
                   pvars, dvars, svars, rvars>>

\* no finally: stop_processing only after a result was appended
flag_after_request_on_result(outcome, flag) == IF outcome = "result" THEN FALSE ELSE flag
\* `finally: self.state.stop_processing()` (lines 236-237)
flag_after_request(outcome, flag) == FALSE

\* _process_request (lines 222-237) and the rest of _handle_send_click: the
\* API answers with a result, with nothing, or raises; me.navigate("/error")
\* may itself raise, which reaches the handler of lines 210-213
ProcessRequest ==
    /\ u_pc = "processing"
    /\ \E outcome \in {"result", "nothing", "exception"}, navigate_raises \in BOOLEAN :
         /\ outcome = "result" => ~navigate_raises
         /\ IF outcome = "result"
            THEN \E r \in UiResults : u_output' = u_output \o r
            ELSE UNCHANGED u_output
         /\ IF navigate_raises
            THEN u_in_progress' = FALSE /\ u_error' = ProcessingError
            ELSE /\ u_in_progress' = flag_after_request(outcome, u_in_progress)
                 /\ UNCHANGED u_error
    /\ u_api_calls' = u_api_calls + 1
    /\ u_completed' = u_completed + 1
    /\ u_pc' = "idle"
    /\ u_text' = <<>>
    /\ UNCHANGED <<u_input, u_clicks, tvars, mvars, xvars, hvars, lvars,
                   pvars, dvars, svars, rvars>>

NextUi == TextareaBlur \/ ClearClick \/ SendClick \/ ProcessRequest

SpecUi == InitUi /\ [][NextUi]_vars

\* ================================================================== claims
\* the completion's first <tag>...<tag> field is exactly v: the first marker
\* of the text is followed by v and by the marker again, v holding no marker
FieldIs(text, tag, v) ==
    LET m == Marker(tag)
    IN \E i \in 1..Len(text) :
         /\ IsAt(text, m, i)
         /\ \A h \in 1..(i - 1) : ~IsAt(text, m, h)
         /\ IsAt(text, v, i + Len(m))
         /\ IsAt(text, m, i + Len(m) + Len(v))
         /\ \A h \in (i + Len(m))..(i + Len(m) + Len(v) - 1) : ~IsAt(text, m, h)

\* the LLM reports "related" on this invocation
ReportsRelated(invoke) == invoke.exc = "none" /\ FieldIs(invoke.val, related, TrueStr)

Fetched == primary.some
InCorpus(k) == all_tickets.some /\ k \in DOMAIN Corpus
Candidates == {k \in Keys : InCorpus(k) /\ k # primary_issue_key}
LinkPhaseComplete == Fetched /\ pc \in {"metadata", "comment", "generated", "Done"}
MetadataBegun == pc \in {"metadata", "comment", "generated"} \/ synth_calls # <<>> \/ comment_calls # <<>>
Checked == {k \in Keys : check_calls[k] # <<>>}
Linked == {k \in Keys : link_calls[k] # <<>>}
LinkFailed(k) ==
    \E i \in 1..Len(link_calls[k]) :
        link_calls[k][i].exc # "none" \/ ~link_calls[k][i].ok
CheckFailed(k) ==
    \E i \in 1..Len(check_calls[k]) : check_calls[k][i].invoke.exc # "none"
\* S: the candidates the classifier reported related
RelatedSet == {k \in Keys : \E i \in 1..Len(check_calls[k]) :
                    ReportsRelated(check_calls[k][i].invoke)}
NoTrackerWrites ==
    /\ \A k \in Keys : check_calls[k] = <<>> /\ link_calls[k] = <<>>
    /\ submitted = {}
    /\ synth_calls = <<>>
    /\ comment_calls = <<>>

\* C1: once the metadata phase of a run has begun (synthesis or add_comment),
\* every corpus entry has been submitted and no task of the run is still
\* queued, checking or linking.
C1_MetadataAfterJoin ==
    MetadataBegun =>
        /\ submitted = DOMAIN Corpus
        /\ \A k \in Keys : ~InFlight(k)

C1_Witness ==
    /\ pc = "comment"
    /\ Cardinality(submitted) >= 2
    /\ Cardinality(Linked) >= 1

\* C2: no link_jira_issue call links a ticket to itself.
C2_NoSelfLink ==
    \A k \in Keys : \A i \in 1..Len(link_calls[k]) :
        link_calls[k][i].inward # link_calls[k][i].outward

C2_Witness ==
    /\ pc = "Done"
    /\ Fetched
    /\ InCorpus(primary_issue_key)
    /\ wstate[primary_issue_key] = "returned"
    /\ Cardinality(Linked) >= 1

\* C3: link(target, c) is called at most once per key, only for candidates
\* the classifier reported related, and, once the link phase is complete,
\* exactly once for each of them, failed link or not.
C3_LinkOncePerRelated ==
    /\ \A k \in Keys :
         /\ Len(link_calls[k]) <= 1
         /\ link_calls[k] # <<>> =>
              /\ k \in RelatedSet
              /\ k \in Candidates
              /\ link_calls[k][1].inward = primary_issue_key
              /\ link_calls[k][1].outward = k
    /\ LinkPhaseComplete => \A k \in RelatedSet : Len(link_calls[k]) = 1

C3_Witness ==
    /\ LinkPhaseComplete
    /\ RelatedSet # {}
    /\ RelatedSet # Candidates
    /\ \E k \in RelatedSet : LinkFailed(k)

\* C4: when the link phase is complete the number of classifier calls is the
\* corpus size, less one if the target's key is in the corpus; the target is
\* never classified against itself.
C4_CheckCount ==
    /\ \A k \in Keys : Len(check_calls[k]) <= 1
    /\ Fetched => check_calls[primary_issue_key] = <<>>
    /\ LinkPhaseComplete =>
         Cardinality(Checked) =
             Cardinality(DOMAIN Corpus)
                 - (IF primary_issue_key \in DOMAIN Corpus THEN 1 ELSE 0)

C4_Witness ==
    /\ LinkPhaseComplete
    /\ primary_issue_key \in DOMAIN Corpus
    /\ Cardinality(Checked) = 2

\* C5: an empty corpus ends the run in Aborted with the no-tickets message and
\* without any classifier, link, synthesis or comment call.
C5_EmptyCorpusAborts ==
    (all_tickets.some /\ DOMAIN all_tickets.val = {}) =>
        /\ pc = "Aborted"
        /\ status = NoTicketsFound
        /\ ~raised
        /\ NoTrackerWrites

C5_Witness ==
    /\ all_tickets.some
    /\ DOMAIN all_tickets.val = {}
    /\ pc = "Aborted"

\* C6: a non-empty corpus and an absent target end the run in Aborted with
\* the status naming the ticket, no exception, and no classifier, link,
\* synthesis or comment call.
C6_AbsentTargetAborts ==
    (pc \notin {"start", "fetch_primary"} /\ ~corpus_missing(all_tickets) /\ ~Fetched) =>
        /\ pc = "Aborted"
        /\ status = CouldNotRetrieve(ticket_number)
        /\ ~raised
        /\ NoTrackerWrites

C6_Witness ==
    /\ pc = "Aborted"
    /\ Cardinality(DOMAIN all_tickets.val) >= 1
    /\ ~Fetched
    /\ status.arg = ticket_number

\* C7: no exception leaves _triage_tool, and a finished call has returned one
\* of its status strings, whatever failed.
C7_NeverRaises ==
    /\ ~raised
    /\ pc \in {"Done", "Aborted"} =>
         status \in {NoTicketsFound, CouldNotRetrieve(ticket_number),
                     TaskComplete, ErrorDuringTriage}

C7_Witness ==
    /\ pc = "Done"
    /\ status = TaskComplete
    /\ \E k \in Keys : CheckFailed(k)
    /\ \E k \in Keys : LinkFailed(k) /\ link_calls[k][1].exc # "none"
    /\ Len(comment_calls) = 1
    /\ comment_calls[1].exc # "none"

\* C8: a finished run in which a link call failed has still run the synthesis
\* once and, if it yielded output, attempted add_comment once on the primary
\* ticket.
C8_LinkFailureKeepsComment ==
    (pc = "Done" /\ \E k \in Keys : LinkFailed(k)) =>
        /\ Len(synth_calls) = 1
        /\ Truthy(synth_calls[1].output) =>
             /\ Len(comment_calls) = 1
             /\ comment_calls[1].key = primary_issue_key

C8_Witness ==
    /\ pc = "Done"
    /\ Cardinality(Linked) >= 2
    /\ \A k \in Linked : LinkFailed(k)
    /\ Len(comment_calls) = 1

\* C9: a classifier call whose LLM invocation failed returned false without
\* raising and no link follows for that candidate; in a run with such a
\* failure every other candidate is still checked once, its task returns, and
\* it is linked exactly when the classifier reported it related.
C9_LLMFailureIsolated ==
    /\ \A k \in Keys : CheckFailed(k) =>
         /\ ~check_calls[k][1].raised
         /\ ~check_calls[k][1].related
         /\ link_calls[k] = <<>>
    /\ (LinkPhaseComplete /\ \E k \in Keys : CheckFailed(k)) =>
         \A c \in Candidates :
            /\ Len(check_calls[c]) = 1
            /\ wstate[c] = "returned"
            /\ (Len(link_calls[c]) = 1) = ReportsRelated(check_calls[c][1].invoke)

C9_Witness ==
    /\ LinkPhaseComplete
    /\ \E k \in Candidates : CheckFailed(k)
    /\ \E c \in Candidates : ~CheckFailed(c) /\ Len(link_calls[c]) = 1

\* C10: _llm_check_ticket_match returns (never raises), and returns true
\* exactly when the completion's first <related> field is "True".
C10_RelatedIffTrue ==
    m_pc # "call" =>
        /\ m_pc = "returned"
        /\ m_result = ReportsRelated(m_invoke)

C10_Witness ==
    /\ m_pc = "returned"
    /\ m_result
    /\ Len(m_invoke.val) > Len(Wrap(related, TrueStr))

\* the value a field written this way holds
FieldValue(how) ==
    CASE how = "High" -> High
      [] how = "lines" -> <<"u", "\n", "v">>
      [] OTHER -> <<>>

\* the four lines, in the fixed order, for the fields the stub wrote
ExpectedComment(fields) ==
    <<"u", "s", "e", "r", "_", "s", "t", "o", "r", "i", "e", "s", ":", " ">>
        \o FieldValue(fields[1]) \o <<"\n">>
    \o <<"a", "c", "c", "e", "p", "t", "a", "n", "c", "e", "_",
         "c", "r", "i", "t", "e", "r", "i", "a", ":", " ">>
        \o FieldValue(fields[2]) \o <<"\n">>
    \o <<"p", "r", "i", "o", "r", "i", "t", "y", ":", " ">>
        \o FieldValue(fields[3]) \o <<"\n">>
    \o <<"t", "h", "o", "u", "g", "h", "t", ":", " ">>
        \o FieldValue(fields[4])

\* C11: for a non-empty completion holding any subset of the four tags, the
\* metadata phase ends with add_comment called once, on the primary ticket,
\* with the four lines in the fixed order, each holding its tag's value, or
\* nothing when the tag is absent.
C11_MissingTagsDegrade ==
    /\ Len(comment_calls) <= 1
    /\ (pc \in {"generated", "Done"} /\ StubOutput(stub) # <<>>) =>
         /\ Len(comment_calls) = 1
         /\ comment_calls[1].key = primary_issue_key
         /\ comment_calls[1].body = ExpectedComment(stub.fields)

C11_Witness ==
    /\ pc = "Done"
    /\ stub = [fields |-> <<"absent", "absent", "High", "absent">>, layout |-> "plain"]
    /\ Len(comment_calls) = 1

\* the one synthesis of the run gave nothing: the invocation raised (run_llm
\* returned None) or the completion was the empty string
SynthesisAbsent ==
    /\ Len(synth_calls) = 1
    /\ ~synth_calls[1].output.some \/ synth_calls[1].output.val = <<>>

\* C12: when metadata synthesis yields nothing (the LLM call failed or gave
\* no output), the run posts no comment, and it ends in Done with the
\* completion status, no exception reaching the caller.
C12_AbsentSynthesisSkipsComment ==
    SynthesisAbsent =>
        /\ comment_calls = <<>>
        /\ comment = None
        /\ pc \in {"generated", "Done"}
        /\ pc = "Done" => status = TaskComplete /\ ~raised

C12_Witness ==
    /\ pc = "Done"
    /\ SynthesisAbsent
    /\ synth_calls[1].failed
    /\ status = TaskComplete

\* every corpus entry has been handed to the pool
AllDispatched == all_tickets.some /\ submitted = DOMAIN Corpus

\* C13 as stated: every completed triage call, whatever its outcome, has
\* invoked the metadata LLM task exactly once.
C13_OncePerCallAnyOutcome ==
    pc \in {"Done", "Aborted"} => Len(synth_calls) = 1

\* C13, amended: a triage call invokes the metadata LLM task at most once;
\* a call that ends in Done has invoked it exactly once, a call that ends in
\* Aborted never; and the invocation comes after every corpus entry was
\* dispatched to the pool (and every candidate's check was made).
C13_OncePerCompletedRun ==
    /\ Len(synth_calls) <= 1
    /\ pc = "Done" => Len(synth_calls) = 1
    /\ pc = "Aborted" => synth_calls = <<>>
    /\ synth_calls # <<>> =>
         /\ AllDispatched
         /\ \A k \in Candidates : check_calls[k] # <<>>

C13_Witness ==
    /\ pc = "Done"
    /\ Len(synth_calls) = 1
    /\ Cardinality(Candidates) >= 2
    /\ AllDispatched

\* C17 as stated: when the search request fails (tracker unreachable, or a
\* non-success status), get_all_tickets fails with a tracker error.
C17_FailureIsTrackerError ==
    search.tracker = "failed" => search.exc \in {"JiraAPIError", "JiraConfigError"}

\* C17, amended: get_all_tickets never raises; on a failed search request it
\* returns None, and on an answered one the mapping, empty when there are
\* zero open tickets, so None and the empty mapping tell failure from
\* emptiness; _triage_tool gives both the same status.
C17_FailureIsNoneEmptinessIsMapping ==
    /\ search.exc = "none"
    /\ search.tracker = "failed" => all_tickets = None
    /\ search.tracker = "answered" => all_tickets.some
    /\ (search.tracker = "failed" \/ (all_tickets.some /\ DOMAIN all_tickets.val = {}))
          => pc = "Aborted" /\ status = NoTicketsFound /\ ~raised

C17_Witness ==
    /\ search.tracker = "answered"
    /\ all_tickets.some
    /\ DOMAIN all_tickets.val = {}
    /\ all_tickets # None
    /\ pc = "Aborted"

Terminal == pc \in {"Done", "Aborted"}
Returned == status # NoStatus \/ raised

\* C18: with every call returning and the pool threads scheduled fairly, a
\* triage call reaches Done or Aborted, for every corpus and every pool size
\* from one worker up; it has a status to return only there, and no pool
\* task is then still queued or running.
C18_TriageTerminates ==
    /\ <>Terminal
    /\ [](Returned => Terminal)
    /\ [](Terminal => \A k \in Keys : ~InFlight(k))

C18_Witness ==
    /\ pc = "Done"
    /\ cpu_count = 1
    /\ Cardinality(submitted) = MaxTickets
    /\ status = TaskComplete

\* the state of the orchestrator's state machine the run is in
Phase ==
    CASE pc \in {"start", "fetch_primary"} -> "Start"
      [] pc = "dispatch" /\ submitted = {} -> "CorpusFetched"
      [] pc = "dispatch" /\ submitted # {} -> "LinksDispatched"
      [] pc = "metadata" -> "LinksComplete"
      [] pc \in {"comment", "generated"} -> "MetadataGenerated"
      [] pc = "Done" -> "Done"
      [] pc = "Aborted" -> "Aborted"

PhaseOrder ==
    <<"Start", "CorpusFetched", "LinksDispatched", "LinksComplete",
      "MetadataGenerated", "Done">>

PhaseRank(p) == CHOOSE i \in 1..Len(PhaseOrder) : PhaseOrder[i] = p

\* a step stays in its state, moves to the next state of the order, or
\* aborts from Start or CorpusFetched
PhaseStep ==
    \/ Phase' = Phase
    \/ /\ Phase # "Aborted"
       /\ Phase' # "Aborted"
       /\ PhaseRank(Phase') = PhaseRank(Phase) + 1
    \/ /\ Phase' = "Aborted"
       /\ Phase \in {"Start", "CorpusFetched"}

\* C20: a run goes through Start, CorpusFetched, LinksDispatched,
\* LinksComplete, MetadataGenerated, Done in this order, skipping and
\* revisiting none; Aborted is entered from Start or CorpusFetched only; a
\* run that has dispatched a task to the pool ends in Done.
C20_StateOrder ==
    /\ [][PhaseStep]_vars
    /\ (Phase = "LinksDispatched") ~> (Phase = "Done")

C20_Witness ==
    /\ Phase = "Done"
    /\ Len(comment_calls) = 1
    /\ Linked # {}
    /\ cpu_count = CpuCount

\* the text holds the literal m
Contains(text, m) == \E i \in 1..Len(text) : IsAt(text, m, i)

\* the part of the text before its first literal m
BeforeFirst(text, m) ==
    SubSeq(text, 1, SetMin({i \in 1..Len(text) : IsAt(text, m, i)}) - 1)

RoundTripCall == x_pc = "returned" /\ x_shape = "wrapped" /\ x_tag = <<"t">>

\* C14 as stated: for every text a, also one that holds the marker <t>,
\* extract("<t>" + a + "<t>", "t") returns exactly a.
C14_RoundTripAnyText ==
    RoundTripCall => x_result = Ok(Some(x_a))

\* C14, amended: for every text a that does not hold the marker <t> (also
\* the empty text and texts spanning lines), extract("<t>" + a + "<t>", "t")
\* returns exactly a; for a text that holds <t>, it returns the part of a
\* before its first <t>.
C14_RoundTripMarkerFree ==
    RoundTripCall =>
        /\ x_result.exc = "none"
        /\ ~Contains(x_a, Marker(<<"t">>)) => x_result.val = Some(x_a)
        /\ Contains(x_a, Marker(<<"t">>)) =>
              x_result.val = Some(BeforeFirst(x_a, Marker(<<"t">>)))

C14_Witness ==
    /\ RoundTripCall
    /\ x_a = <<"<", "\n", "t">>
    /\ x_result = Ok(Some(x_a))

\* the text holds the tag's marker and, after it, the same marker again
LiteralPair(text, tag) ==
    LET m == Marker(tag)
    IN \E i, j \in 1..Len(text) :
         IsAt(text, m, i) /\ j >= i + Len(m) /\ IsAt(text, m, j)

\* C15 as stated: for every text and every tag name, extraction does not
\* raise, and it returns absent when the text does not hold the tag's marker
\* followed later by the same marker.
C15_AbsentWithoutMarkerPair ==
    x_pc = "returned" =>
        /\ x_result.exc = "none"
        /\ ~LiteralPair(ExtractText, x_tag) => x_result.val = None

\* C16 as stated: when a configuration document is missing at startup the
\* orchestrator is never constructed, and no request is accepted and then
\* failed: the service does not come to serve.
C16_MissingDocsFatalAtStartup ==
    h_docs # ConfigDocs =>
        /\ agent = "None"
        /\ h_pc # "serving"
        /\ \A i \in 1..Len(h_log) :
              ~(request_is_valid(h_log[i].data) /\ h_log[i].response.status = 500)

\* the rows saved for the requests handled so far, in order
RECURSIVE RowsOf(_)
RowsOf(log) ==
    IF log = <<>> THEN <<>>
    ELSE LET before == RowsOf(SubSeq(log, 1, Len(log) - 1))
             e == log[Len(log)]
         IN IF e.response.status = 200
            THEN Append(before, [id |-> e.response.request_id,
                                 request |-> strip(e.data.val),
                                 response |-> e.response.output.val])
            ELSE before

\* the request is one the view takes, and the agent's answer one it returns
Presentable(e) ==
    /\ e.data.some /\ e.data.val.body > 0 /\ len(e.data.val) <= MaxRequestChars
    /\ e.agent_response.exc = "none"
    /\ e.agent_response.keys = "output"
    /\ e.agent_response.output.some
    /\ e.agent_response.output.val.body > 0

\* C19: a ModelRequest row holding the request and the output is saved
\* exactly when the response is the success response carrying that output;
\* an invalid request gets 400 without the agent being invoked; an empty or
\* output-less agent response, an invalid response and every exception get
\* an error response (exceptions: 'Internal server error'), no row saved.
C19_SavedIffSuccess ==
    /\ h_db = RowsOf(h_log)
    /\ \A i \in 1..Len(h_log) :
         LET e == h_log[i]
         IN /\ e.saved <=> e.response.status = 200
            /\ e.response.status = 200 =>
                 /\ Presentable(e)
                 /\ e.save_ok
                 /\ e.response.output = e.agent_response.output
                 /\ e.response.request_id \in 1..Len(h_db)
                 /\ h_db[e.response.request_id].response = e.agent_response.output.val
                 /\ h_db[e.response.request_id].request = strip(e.data.val)
            /\ e.response.status # 200 =>
                 /\ e.response.error # ""
                 /\ e.response.output = NoStr
            /\ ~(e.data.some /\ e.data.val.body > 0 /\ len(e.data.val) <= MaxRequestChars) =>
                 e.response.status = 400 /\ ~e.invoked
            /\ ~Presentable(e) => e.response.status \in {400, 500}
            /\ (e.agent_response.exc # "none" \/ ~e.save_ok) =>
                 e.response = InternalServerError

C19_Witness ==
    /\ Len(h_log) = 2
    /\ h_log[1].response = InternalServerError
    /\ ~h_log[1].save_ok
    /\ h_log[2].response.status = 200
    /\ h_log[2].data = Some(Str(1, 2, 1))
    /\ h_db = <<[id |-> 1, request |-> Str(0, 2, 0), response |-> Str(0, 3, 1)]>>

\* the step is a link call for key k that failed (raised, or was refused)
LinkFailureStep(k) ==
    /\ Len(link_calls'[k]) = Len(link_calls[k]) + 1
    /\ LET l == link_calls'[k][Len(link_calls'[k])]
       IN l.exc # "none" \/ ~l.ok

\* every candidate but k has been checked, and linked if reported related
SiblingsServed(k) ==
    Fetched /\ \A c \in Candidates \ {k} :
        /\ Len(check_calls[c]) = 1
        /\ \A i \in 1..Len(check_calls[c]) :
              ReportsRelated(check_calls[c][i].invoke) => Len(link_calls[c]) = 1

\* C21: a failing link(target, c) changes nothing of the sibling tasks nor
\* of the orchestrating thread, and under every interleaving every other
\* candidate is still checked and, when reported related, linked.
C21_LinkFailureSparesSiblings ==
    /\ [][\A k \in Keys : LinkFailureStep(k) =>
              /\ pc' = pc /\ status' = status /\ raised' = raised
              /\ submitted' = submitted
              /\ \A c \in Keys \ {k} : wstate'[c] = wstate[c]]_vars
    /\ (\E k \in Keys : LinkFailed(k))
          ~> (\A k \in Keys : LinkFailed(k) => SiblingsServed(k))

C21_Witness ==
    /\ pc = "dispatch"
    /\ \E k \in Keys :
         /\ LinkFailed(k)
         /\ \E c \in Keys \ {k} : wstate[c] = "returned" /\ Len(link_calls[c]) = 1
                                     /\ ~LinkFailed(c)
         /\ SiblingsServed(k)

\* C22 as stated: no run_llm call, of any thread, assigns a field of the
\* shared task object after construction.
C22_TaskReadOnly ==
    l_writes = <<>> /\ (l_pc # <<>> => l_chain = "None")

\* two threads have both found _chain unset, and both have assigned it
C22_RacingWrites ==
    /\ Len(l_writes) >= 2
    /\ l_writes[1] # l_writes[2]
    /\ \A w \in {l_writes[1], l_writes[2]} : l_calls[w] = 1

\* C23: at no moment of a run do more tasks (a relatedness check with its
\* link call) execute than the pool has threads, one per CPU of the host;
\* every task that waits in the queue is run to its end, and when the link
\* phase is complete every corpus entry has been processed.
C23_FanOutBounded ==
    /\ [](Cardinality(Running) <= cpu_count)
    /\ [](LinkPhaseComplete => \A k \in DOMAIN Corpus : wstate[k] = "returned")
    /\ (\E k \in Keys : wstate[k] = "queued")
          ~> (\A k \in submitted : wstate[k] = "returned")

C23_Witness ==
    /\ pc = "dispatch"
    /\ cpu_count = 1
    /\ Cardinality(Running) = cpu_count
    /\ Cardinality({k \in Keys : wstate[k] = "queued"}) = 2

\* the links a run makes when it runs alone: from its target to every other
\* key its classifier reports related
SoloLinks(r) ==
    {<<p_ticket[r], k>> : k \in {c \in Keys \ {p_ticket[r]} :
                                    p_oracle[r].cls[c] = "related"}}

SoloStatus(r) ==
    CASE p_oracle[r].avail = "no_corpus" -> NoTicketsFound
      [] p_oracle[r].avail = "no_target" -> CouldNotRetrieve(p_ticket[r])
      [] p_oracle[r].avail = "ok" -> TaskComplete

\* C24: of two triage runs for different targets, interleaved in any way,
\* each links from its own target only, and only candidates its own
\* classifier calls reported related, comments on its own target only, and
\* ends with the calls and the status it has when run alone.
C24_RunsIndependent ==
    \A r \in Runs :
        /\ p_links[r] \subseteq SoloLinks(r)
        /\ p_comments[r] \subseteq {p_ticket[r]}
        /\ p_checks[r] \subseteq Keys \ {p_ticket[r]}
        /\ p_pc[r] \in {"Done", "Aborted"} =>
             /\ p_status[r] = SoloStatus(r)
             /\ p_links[r] = IF p_pc[r] = "Done" THEN SoloLinks(r) ELSE {}
             /\ p_checks[r] = IF p_pc[r] = "Done" THEN Keys \ {p_ticket[r]} ELSE {}
             /\ p_comments[r] = IF p_pc[r] = "Done" /\ p_oracle[r].synth
                                THEN {p_ticket[r]} ELSE {}

C24_Witness ==
    /\ \A r \in Runs : p_pc[r] = "dispatch" /\ p_links[r] # {} /\ p_done[r] # Keys
    /\ p_oracle["a"].cls # p_oracle["b"].cls
    /\ p_oracle["a"].synth

\* C25: link creation has no duplicate detection. The second of two runs on
\* the same target, corpus and classifier answers issues exactly the link
\* calls of the first, one for every candidate other than the target that the
\* classifier reports related, whether or not the tracker already holds the
\* link; the orchestrator never looks a link up.
C25_NoDuplicateDetection ==
    /\ d_queries = 0
    /\ (d_run = 2 /\ d_pc = "Done") =>
          /\ d_calls[2] = d_calls[1]
          /\ d_calls[2] = {<<d_target, k>> : k \in
                             {c \in d_corpus \ {d_target} : d_cls[c] = "related"}}

\* the second run has ended after posting links the tracker already held
C25_Witness ==
    /\ d_run = 2
    /\ d_pc = "Done"
    /\ Cardinality(d_calls[2]) >= 2
    /\ d_calls[2] \subseteq d_tracker
    /\ d_calls[1] \subseteq d_tracker

\* C26: the corpus fetched at the start of a run is the full set of open
\* tickets: whatever their number, every open ticket with a key is in the
\* mapping get_all_tickets returns.
C26_CorpusComplete ==
    (s_pc = "returned" /\ s_tickets.some) => s_tickets.val = s_open \ s_keyless

\* a project with more open tickets than one page: the mapping returned
\* lacks the tickets past the page
C26_PageOnly ==
    /\ s_pc = "returned"
    /\ s_tickets.some
    /\ Cardinality(s_open) = maxResults + 1
    /\ s_keyless = {}
    /\ s_tickets.val = 1..maxResults

\* C27: the status triage returns does not depend on any link, classifier,
\* synthesis or comment outcome: every run that fetched a non-empty corpus and
\* the target returns the completion message, also when every link call and
\* the add_comment call failed; only an aborted run returns something else.
C27_StatusIgnoresOutcomes ==
    /\ (pc = "Done" /\ Fetched) => status = TaskComplete /\ ~raised
    /\ (pc \in {"Done", "Aborted"} /\ status # TaskComplete) =>
          pc = "Aborted" /\ ~Fetched /\ Linked = {} /\ comment_calls = <<>>

\* a run returns the completion message although every classifier call
\* reported related, every link call failed and add_comment failed
C27_Witness ==
    /\ pc = "Done"
    /\ Fetched
    /\ status = TaskComplete
    /\ Cardinality(Candidates) >= 2
    /\ \A k \in Candidates : Len(link_calls[k]) = 1 /\ LinkFailed(k)
    /\ Len(synth_calls) = 1
    /\ Len(comment_calls) = 1
    /\ comment_calls[1].exc # "none"

\* the HTTP attempts of the call so far
Attempts == {i \in 1..Len(r_log) : r_log[i].kind = "attempt"}

\* C28: for any max_retries, _make_request makes at most max_retries HTTP
\* attempts, returns the response of the first successful attempt without
\* attempting again, raises APIError when every attempt failed, and never
\* completes normally without returning a response.
C28_RetryContract ==
    /\ Cardinality(Attempts) <= r_max
    /\ \A i \in Attempts : r_log[i].outcome = "ok" =>
          i = Len(r_log) /\ r_pc = "done" /\ r_result = "response"
    /\ r_pc = "done" =>
          /\ r_result \in {"response", "APIError"}
          /\ r_result = "response" => r_log[Len(r_log)].outcome = "ok"
          /\ r_result = "APIError" =>
                /\ Cardinality(Attempts) = r_max
                /\ \A i \in Attempts : r_log[i].outcome # "ok"

\* a client configured with max_retries = 0: the call ends normally with no
\* attempt made and no response
C28_ReturnsNothing ==
    /\ r_max = 0
    /\ r_pc = "done"
    /\ r_result = "None"
    /\ r_log = <<>>

\* C29: a wait precedes every retry, with exponential backoff: after failed
\* attempt k that is not the last, 2^k seconds are waited before the next
\* attempt, for a timeout as for any other request error; and no wait
\* follows the final attempt.
C29_BackoffBeforeRetry ==
    /\ \A i \in Attempts : r_log[i].n > 0 =>
          /\ r_log[i - 1].kind = "sleep"
          /\ r_log[i - 1].secs = Pow2(r_log[i].n - 1)
          /\ r_log[i - 2].kind = "attempt"
          /\ r_log[i - 2].n = r_log[i].n - 1
    /\ \A i \in 1..Len(r_log) : r_log[i].kind = "sleep" => r_log[i].n < r_max - 1

\* a retry right after a timeout, no wait between the two attempts
C29_TimeoutNoWait ==
    /\ Len(r_log) >= 2
    /\ r_log[1] = AttemptEntry(0, "Timeout")
    /\ r_log[2].kind = "attempt"
    /\ r_log[2].n = 1

\* C30: the processing flag is always released: when a send-click handler
\* that began processing ends (result, no result, or exception), in_progress
\* is false, and it is false whenever no handler is in flight; a send click
\* on empty or whitespace-only input calls no API and leaves input, output
\* and in_progress as they were; output changes only by a result appended to
\* it or by being cleared.
C30_FlagReleased ==
    [][/\ u_completed' # u_completed => ~u_in_progress'
       /\ u_pc' = "idle" => ~u_in_progress'
       /\ (u_clicks' # u_clicks /\ is_blank(u_input)) =>
             /\ u_api_calls' = u_api_calls
             /\ u_pc' = u_pc
             /\ UNCHANGED <<u_input, u_output, u_in_progress>>
       /\ u_output' # u_output =>
             \/ u_output' = <<>> /\ u_api_calls' = u_api_calls
             \/ /\ u_api_calls' = u_api_calls + 1
                /\ \E r \in UiResults : u_output' = u_output \o r]_vars

\* a handler whose API call returned nothing has ended, after an earlier
\* result was appended and a whitespace-only click was ignored
C30_Witness ==
    /\ u_pc = "idle"
    /\ u_completed = 2
    /\ u_clicks = 3
    /\ u_api_calls = 2
    /\ u_output # <<>>
    /\ u_error = <<>>
    /\ ~u_in_progress

====
